---- MODULE Spec2Model ----
(***************************************************************************)
(* RPI-Central data tools.                                                 *)
(*   Tools/rpi_academic_calendar_scraper.py : the calendar scraper         *)
(*   Tools/prepare_courses_for_ios.py       : the course merger            *)
(* Strings are TLA+ strings (sequences of characters); the text functions  *)
(* of the source (lower, title, strip, the regular expressions) are        *)
(* computed character by character.                                        *)
(***************************************************************************)
EXTENDS Integers, Sequences, FiniteSets, TLC

VARIABLES
    \* ---- scrape(yy): rpi_academic_calendar_scraper.py ----
    yy,                 \* the --academic-year argument
    events,             \* events: List[Event]
    current_month_num,  \* Optional[int], None is 0
    pc,                 \* "rows" (inside the table loops) | "done" (out computed)
    tbl,                \* index of the table being scanned
    nrows,              \* rows met so far
    terms,              \* out["terms"], set when pc = "done"
    ntables,            \* len(tables): the tables whose headers hold Date, Day and Event
    lastRow,            \* the row the last step met, what became of it, the failures so far
    kept,               \* the rows that became events, in order, each with its table
    \* ---- parse_date_cell / parse_month_name_to_num applied to one input ----
    pd_in, pd_out,
    \* ---- infer_tags applied to one title ----
    tg_in, tg_out,
    \* ---- prepare_courses_for_ios.py ----
    courses_by_key,     \* the dict, as the sequence of its (key, record) pairs in insertion order
    cpc,                \* "catalog" | "schools" | "done"
    ncat, ncourses,     \* catalog entries / scheduling courses met so far
    school,             \* index of the school being scanned
    output,             \* output["courses"], set when cpc = "done"
    catalogSeen,        \* the catalog entries met, in order
    coursesSeen         \* the scheduling-source courses met, in order

calVars == <<yy, events, current_month_num, pc, tbl, ntables, nrows, terms, lastRow, kept>>
parseVars == <<pd_in, pd_out>>
tagVars == <<tg_in, tg_out>>
crsVars == <<courses_by_key, cpc, ncat, ncourses, school, output, catalogSeen, coursesSeen>>
vars == <<calVars, parseVars, tagVars, crsVars>>

(***************************************************************************)
(* Characters and strings                                                  *)
(***************************************************************************)
Ch(s, i) == SubSeq(s, i, i)

UpperLetters == "ABCDEFGHIJKLMNOPQRSTUVWXYZ"
LowerLetters == "abcdefghijklmnopqrstuvwxyz"
Digits == "0123456789"

PosIn(c, alphabet) == CHOOSE i \in 1..Len(alphabet) : Ch(alphabet, i) = c

UpperSet == {Ch(UpperLetters, i) : i \in 1..Len(UpperLetters)}
LowerSet == {Ch(LowerLetters, i) : i \in 1..Len(LowerLetters)}
DigitSet == {Ch(Digits, i) : i \in 1..Len(Digits)}
ToLower == [c \in UpperSet |-> Ch(LowerLetters, PosIn(c, UpperLetters))]
ToUpper == [c \in LowerSet |-> Ch(UpperLetters, PosIn(c, LowerLetters))]
DigitValue == [c \in DigitSet |-> PosIn(c, Digits) - 1]

IsUpper(c) == c \in UpperSet
IsLower(c) == c \in LowerSet
IsLetter(c) == IsUpper(c) \/ IsLower(c)
IsDigit(c) == c \in DigitSet
IsSpace(c) == c = " " \/ c = "\t"

lowerCh(c) == IF IsUpper(c) THEN ToLower[c] ELSE c
upperCh(c) == IF IsLower(c) THEN ToUpper[c] ELSE c

\* str.lower()
RECURSIVE lower(_)
lower(s) == IF Len(s) = 0 THEN "" ELSE lowerCh(Head(s)) \o lower(Tail(s))

\* str.title(): a letter that follows a non-letter is upper-cased, every other letter lower-cased
RECURSIVE titleFrom(_, _)
titleFrom(s, afterLetter) ==
    IF Len(s) = 0 THEN ""
    ELSE LET c == Head(s)
         IN  (IF afterLetter THEN lowerCh(c) ELSE upperCh(c)) \o titleFrom(Tail(s), IsLetter(c))

title(s) == titleFrom(s, FALSE)

\* str.strip()
RECURSIVE lstrip(_)
lstrip(s) == IF Len(s) > 0 /\ IsSpace(Head(s)) THEN lstrip(Tail(s)) ELSE s

RECURSIVE rstrip(_)
rstrip(s) ==
    IF Len(s) > 0 /\ IsSpace(Ch(s, Len(s))) THEN rstrip(SubSeq(s, 1, Len(s) - 1)) ELSE s

strip(s) == rstrip(lstrip(s))

\* sub in t
Contains(t, sub) ==
    \E i \in 1..(Len(t) - Len(sub) + 1) : SubSeq(t, i, i + Len(sub) - 1) = sub

\* re.sub(r"\s+", " ", s): every run of white space becomes one space
RECURSIVE collapse_ws(_)
collapse_ws(s) ==
    IF Len(s) = 0 THEN ""
    ELSE IF IsSpace(Head(s))
         THEN " " \o collapse_ws(lstrip(s))
         ELSE Head(s) \o collapse_ws(Tail(s))

normalize_ws(s) == strip(collapse_ws(s))

\* int(s) of a string of decimal digits
RECURSIVE int(_)
int(s) ==
    IF Len(s) = 0 THEN 0
    ELSE 10 * int(SubSeq(s, 1, Len(s) - 1)) + DigitValue[Ch(s, Len(s))]

\* str(n) of a natural number
RECURSIVE decimal(_)
decimal(n) == IF n < 10 THEN Ch(Digits, n + 1) ELSE decimal(n \div 10) \o Ch(Digits, (n % 10) + 1)

\* format(n, "0<w>d"): at least w digits, zero-padded on the left
RECURSIVE zfill(_, _)
zfill(s, w) == IF Len(s) >= w THEN s ELSE zfill("0" \o s, w)

(***************************************************************************)
(* rpi_academic_calendar_scraper.py                                        *)
(***************************************************************************)
None == 0
\* None where the other values are strings (JSON null)
null == "null"

MONTHS ==
    ("Jan" :> 1) @@ ("January" :> 1) @@ ("Feb" :> 2) @@ ("February" :> 2) @@
    ("Mar" :> 3) @@ ("March" :> 3) @@ ("Apr" :> 4) @@ ("April" :> 4) @@
    ("May" :> 5) @@ ("Jun" :> 6) @@ ("June" :> 6) @@ ("Jul" :> 7) @@ ("July" :> 7) @@
    ("Aug" :> 8) @@ ("August" :> 8) @@
    ("Sep" :> 9) @@ ("Sept" :> 9) @@ ("September" :> 9) @@
    ("Oct" :> 10) @@ ("October" :> 10) @@ ("Nov" :> 11) @@ ("November" :> 11) @@
    ("Dec" :> 12) @@ ("December" :> 12)

academic_year_to_years(y) == [fall_year |-> 2000 + y, spring_year |-> 2000 + y + 1]

month_to_year(month_num, fall_year, spring_year) ==
    IF month_num >= 8 THEN fall_year ELSE spring_year

month_key_whole(s) == title(s)
month_key_short(s) == IF Len(s) >= 3 THEN title(SubSeq(s, 1, 3)) ELSE title(s)

parse_month_name_to_num(s0) ==
    LET s == strip(s0)
    IN  IF Len(s) = 0 THEN None
        ELSE IF month_key_short(s) \in DOMAIN MONTHS THEN MONTHS[month_key_short(s)]
        ELSE IF title(s) \in DOMAIN MONTHS THEN MONTHS[title(s)]
        ELSE None

\* datetime.date(y, m, d): the constructor raises ValueError unless the day exists
IsLeap(y) == (y % 4 = 0 /\ y % 100 # 0) \/ y % 400 = 0

DaysInMonth(y, m) ==
    IF m = 2 THEN (IF IsLeap(y) THEN 29 ELSE 28)
    ELSE IF m \in {4, 6, 9, 11} THEN 30 ELSE 31

ValidDate(y, m, d) == m \in 1..12 /\ d \in 1..DaysInMonth(y, m)

date(y, m, d) == [y |-> y, m |-> m, d |-> d]

\* date.isoformat(): YYYY-MM-DD
to_iso(d) ==
    zfill(decimal(d.y), 4) \o "-" \o zfill(decimal(d.m), 2) \o "-" \o zfill(decimal(d.d), 2)

\* infer_tags, one flag at a time (t is the lower-cased title)
tag_noClasses(t) == Contains(t, "no classes")
tag_holiday(t) == Contains(t, "staff holiday") \/ Contains(t, "holiday")
tag_followDay_any(t) == Contains(t, "follow a ") \/ Contains(t, " class schedule")
tag_followDay(t) == Contains(t, "follow a ") /\ Contains(t, " class schedule")
tag_finals(t) == Contains(t, "final exams")
tag_readingDays(t) ==
    Contains(t, "reading/study") \/ Contains(t, "reading day") \/ Contains(t, "study day")
tag_break(t) ==
    Contains(t, "break-no classes") \/ (Contains(t, "break") /\ Contains(t, "no classes"))

infer_tags(ttl) ==
    LET t == lower(ttl)
    IN  [noClasses   |-> tag_noClasses(t) \/ tag_break(t),
         holiday     |-> tag_holiday(t),
         followDay   |-> tag_followDay(t),
         finals      |-> tag_finals(t),
         readingDays |-> tag_readingDays(t),
         break       |-> tag_break(t)]

(***************************************************************************)
(* The three date regular expressions.  Each is anchored at both ends and  *)
(* every group is followed by a character outside its class, so a match    *)
(* splits the cell into its maximal runs: letters (w), digits (n), white   *)
(* space (s), the hyphen (-), anything else (x).                           *)
(***************************************************************************)
CharKind(c) ==
    IF IsLetter(c) THEN "w"
    ELSE IF IsDigit(c) THEN "n"
    ELSE IF IsSpace(c) THEN "s"
    ELSE IF c = "-" THEN "-"
    ELSE "x"

RECURSIVE Runs(_)
Runs(s) ==
    IF Len(s) = 0 THEN <<>>
    ELSE LET c == Head(s)
             k == CharKind(c)
             rest == Runs(Tail(s))
         IN  IF k \in {"w", "n", "s"} /\ Len(rest) > 0 /\ rest[1].k = k
             THEN <<[k |-> k, s |-> c \o rest[1].s]>> \o Tail(rest)
             ELSE <<[k |-> k, s |-> c]>> \o rest

RECURSIVE Shape(_)
Shape(runs) == IF Len(runs) = 0 THEN "" ELSE Head(runs).k \o Shape(Tail(runs))

IsWord(r) == r.k = "w"
IsNum(r) == r.k = "n"
WordsOf(runs) == SelectSeq(runs, IsWord)
NumsOf(runs) == SelectSeq(runs, IsNum)

\* [A-Za-z]{3,9} and \d{1,2} for every group of the cell
GroupsFit(runs) ==
    /\ \A i \in 1..Len(runs) : runs[i].k = "w" => Len(runs[i].s) \in 3..9
    /\ \A i \in 1..Len(runs) : runs[i].k = "n" => Len(runs[i].s) \in 1..2

\* ^mon\s+d1\s*-\s*mon\s+d2$
DATE_RANGE_CROSS_MON_RE(s) ==
    /\ Shape(Runs(s)) \in {"wsn-wsn", "wsns-wsn", "wsn-swsn", "wsns-swsn"}
    /\ GroupsFit(Runs(s))

\* ^mon\s+d1\s*-\s*d2$
DATE_RANGE_SAME_MON_RE(s) ==
    /\ Shape(Runs(s)) \in {"wsn-n", "wsns-n", "wsn-sn", "wsns-sn"}
    /\ GroupsFit(Runs(s))

\* ^mon\s+day$
DATE_SINGLE_RE(s) ==
    /\ Shape(Runs(s)) = "wsn"
    /\ GroupsFit(Runs(s))

\* re.fullmatch(r"\d{1,2}", s)
BareDay(s) ==
    /\ Shape(Runs(s)) = "n"
    /\ GroupsFit(Runs(s))

\* What parse_date_cell returns, or the ValueError it raises (ok = FALSE)
NoDay == date(0, 0, 0)
Raised == [ok |-> FALSE, start |-> NoDay, end |-> NoDay, cur |-> None]

\* datetime.date raises ValueError for a day that does not exist, before anything is returned
Returned(y1, m1, d1, y2, m2, d2, new_current_month_num) ==
    IF ValidDate(y1, m1, d1) /\ ValidDate(y2, m2, d2)
    THEN [ok |-> TRUE, start |-> date(y1, m1, d1), end |-> date(y2, m2, d2),
          cur |-> new_current_month_num]
    ELSE Raised

cross_month_first(m1, d1, m2, d2, fall_year, spring_year) ==
    Returned(month_to_year(m1, fall_year, spring_year), m1, d1,
             month_to_year(m2, fall_year, spring_year), m2, d2, m1)

cross_month(m1, d1, m2, d2, fall_year, spring_year) ==
    Returned(month_to_year(m1, fall_year, spring_year), m1, d1,
             month_to_year(m2, fall_year, spring_year), m2, d2, m2)

same_month(mon, d1, d2, fall_year, spring_year) ==
    LET y == month_to_year(mon, fall_year, spring_year)
    IN  Returned(y, mon, d1, y, mon, d2, mon)

parse_date_cell(date_cell, cur, fall_year, spring_year) ==
    LET s == normalize_ws(date_cell)
        w == WordsOf(Runs(s))
        n == NumsOf(Runs(s))
    IN  IF DATE_RANGE_CROSS_MON_RE(s)
        THEN LET m1 == parse_month_name_to_num(w[1].s)
                 m2 == parse_month_name_to_num(w[2].s)
             IN  IF m1 = None \/ m2 = None THEN Raised
                 ELSE cross_month(m1, int(n[1].s), m2, int(n[2].s), fall_year, spring_year)
        ELSE IF DATE_RANGE_SAME_MON_RE(s)
        THEN LET mon == parse_month_name_to_num(w[1].s)
             IN  IF mon = None THEN Raised
                 ELSE same_month(mon, int(n[1].s), int(n[2].s), fall_year, spring_year)
        ELSE IF DATE_SINGLE_RE(s)
        THEN LET mon == parse_month_name_to_num(w[1].s)
             IN  IF mon = None THEN Raised
                 ELSE same_month(mon, int(n[1].s), int(n[1].s), fall_year, spring_year)
        ELSE IF BareDay(s) /\ cur # None
        THEN same_month(cur, int(s), int(s), fall_year, spring_year)
        ELSE Raised

(***************************************************************************)
(* scrape(yy)                                                              *)
(***************************************************************************)
MaxRows == 3

\* " ".join(normalize_ws(th.get_text(...)) for th in tbl.find_all("th"))
RECURSIVE th_text(_)
th_text(ths) ==
    IF Len(ths) = 0 THEN ""
    ELSE IF Len(ths) = 1 THEN normalize_ws(Head(ths))
    ELSE normalize_ws(Head(ths)) \o " " \o th_text(Tail(ths))

\* a table is kept when the joined text of its th cells holds the three words
table_selected(ths) ==
    Contains(th_text(ths), "Date") /\ Contains(th_text(ths), "Day") /\ Contains(th_text(ths), "Event")

RECURSIVE count_selected(_)
count_selected(tbls) ==
    IF Len(tbls) = 0 THEN 0
    ELSE (IF table_selected(Head(tbls)) THEN 1 ELSE 0) + count_selected(Tail(tbls))

NullTerms ==
    [fall |-> [classesBegin |-> null, classesEnd |-> null],
     spring |-> [classesBegin |-> null, classesEnd |-> null]]

\* re.fullmatch(r"[A-Za-z]{3}", day_txt)
IsDow(day_txt) == Len(day_txt) = 3 /\ \A i \in 1..3 : IsLetter(Ch(day_txt, i))

normalize_dow(day_txt) == IF IsDow(day_txt) THEN title(day_txt) ELSE null

Event(event_txt, start_d, end_d, day_txt) ==
    [title |-> event_txt, startDate |-> to_iso(start_d), endDate |-> to_iso(end_d),
     dow |-> normalize_dow(day_txt), tags |-> infer_tags(event_txt)]

\* the row is passed over before its date is parsed (lines 251-265)
row_skipped(r) ==
    \/ r.tds < 3
    \/ normalize_ws(r.date) = ""
    \/ normalize_ws(r.event) = ""

\* the tuple assignment of line 269 happens only when parse_date_cell returns
month_after_any(res, cur) == res.cur
month_after(res, cur) == IF res.ok THEN res.cur ELSE cur

\* one pass of the body of the row loop from the state st = [events, cur]
row_step(st, r, y) ==
    LET years == academic_year_to_years(y)
        res == parse_date_cell(normalize_ws(r.date), st.cur, years.fall_year, years.spring_year)
    IN  IF row_skipped(r) THEN [events |-> st.events, cur |-> st.cur, outcome |-> "skipped"]
        ELSE IF ~res.ok
        THEN [events |-> st.events, cur |-> month_after(res, st.cur), outcome |-> "failed"]
        ELSE [events |-> Append(st.events,
                                Event(normalize_ws(r.event), res.start, res.end, normalize_ws(r.day))),
              cur |-> month_after(res, st.cur), outcome |-> "event"]

\* the first event, in list order, whose lower-cased title holds both substrings
RECURSIVE first_start_with(_, _, _)
first_start_with(evs, a, b) ==
    IF Len(evs) = 0 THEN null
    ELSE IF Contains(lower(Head(evs).title), a) /\ Contains(lower(Head(evs).title), b)
         THEN Head(evs).startDate
         ELSE first_start_with(Tail(evs), a, b)

find_first_date_containing(evs, substr) == first_start_with(evs, lower(substr), lower(substr))

\* lines 309-315
fall_begin(evs) ==
    IF first_start_with(evs, "fall", "classes begin") # null
    THEN first_start_with(evs, "fall", "classes begin")
    ELSE IF find_first_date_containing(evs, "classes begin") # null
         THEN find_first_date_containing(evs, "fall")
         ELSE null

infer_terms(evs) ==
    [fall |-> [classesBegin |-> fall_begin(evs),
               classesEnd |-> first_start_with(evs, "last day of fall", "classes")],
     spring |-> [classesBegin |-> first_start_with(evs, "spring", "classes begin"),
                 classesEnd |-> first_start_with(evs, "last day of spring", "classes")]]

NoRow == [row |-> [tds |-> 0, date |-> "", day |-> "", event |-> ""], outcome |-> "none",
          curBefore |-> None, table |-> 0, failed |-> 0]

\* the pages: the tables of each, a table given by the texts of its th cells
HeaderLists ==
    { <<>>,
      << <<"Date", "Event">> >>,
      << <<"date", "day", "event">>, <<"Da", "te", "Day", "Event">> >>,
      << <<" Date ", "Day", " Event  Name">> >>,
      << <<>>, <<"Event, Day, Date">> >>,
      << <<"Date", "Day", "Event">>, <<"Name", "Office">>, <<"Date", "Day of Week", "Events">> >> }

RowPool ==
    { [tds |-> 3, date |-> "Aug 28", day |-> "thu", event |-> "Fall Classes Begin"],
      [tds |-> 3, date |-> "Jan 12", day |-> "Mon", event |-> "Spring  Classes Begin"],
      [tds |-> 3, date |-> "Dec 23 - Jan 9", day |-> "", event |-> "Winter Break"],
      [tds |-> 3, date |-> "Nov 26 - 28", day |-> "Wed-Fri", event |-> "Fall Break-No Classes"],
      [tds |-> 3, date |-> "31", day |-> "", event |-> "Last Day of Fall Classes"],
      [tds |-> 3, date |-> "Foo 3", day |-> "Tue", event |-> "Fall Classes Begin"],
      [tds |-> 3, date |-> "Feb 30", day |-> "", event |-> "Spring Classes Begin"],
      [tds |-> 3, date |-> "TBD", day |-> "", event |-> "Commencement"],
      [tds |-> 3, date |-> " May   22 ", day |-> "", event |-> ""],
      [tds |-> 2, date |-> "May 22", day |-> "Fri", event |-> ""] }

YYs == {23, 25}
ScrapeYYs == {25}

CalStart ==
    /\ events = <<>>
    /\ current_month_num = None
    /\ tbl = 0
    /\ ntables = 0
    /\ nrows = 0
    /\ terms = NullTerms
    /\ lastRow = NoRow
    /\ kept = <<>>

CalIdle == yy = 25 /\ pc = "idle" /\ CalStart

InitScrape == yy \in ScrapeYYs /\ pc = "tables" /\ CalStart

\* lines 227-243: the tables are located; with none, the empty document is returned
LocateTables ==
    /\ pc = "tables"
    /\ \E page \in HeaderLists :
          /\ ntables' = count_selected(page)
          /\ IF count_selected(page) = 0
             THEN pc' = "done" /\ tbl' = 0
             ELSE pc' = "rows" /\ tbl' = 1
    /\ UNCHANGED <<yy, events, current_month_num, nrows, terms, lastRow, kept>>
    /\ UNCHANGED <<parseVars, tagVars, crsVars>>

\* lines 250-291: one tr of the current table
Row ==
    /\ pc = "rows"
    /\ nrows < MaxRows
    /\ \E r \in RowPool :
          LET nxt == row_step([events |-> events, cur |-> current_month_num], r, yy)
          IN  /\ events' = nxt.events
              /\ current_month_num' = nxt.cur
              /\ lastRow' = [row |-> r, outcome |-> nxt.outcome,
                             curBefore |-> current_month_num, table |-> tbl,
                             failed |-> lastRow.failed + (IF nxt.outcome = "failed" THEN 1 ELSE 0)]
              /\ kept' = IF nxt.outcome = "event"
                         THEN Append(kept, [row |-> r, table |-> tbl])
                         ELSE kept
    /\ nrows' = nrows + 1
    /\ UNCHANGED <<yy, pc, tbl, ntables, terms>>
    /\ UNCHANGED <<parseVars, tagVars, crsVars>>

\* line 248: the rows of a table are over, the next table begins
NextTable ==
    /\ pc = "rows"
    /\ tbl < ntables
    /\ tbl' = tbl + 1
    /\ UNCHANGED <<yy, events, current_month_num, pc, ntables, nrows, terms, lastRow, kept>>
    /\ UNCHANGED <<parseVars, tagVars, crsVars>>

\* lines 293-349: the last table is over, the terms are inferred and out is returned
Finish ==
    /\ pc = "rows"
    /\ tbl = ntables
    /\ terms' = infer_terms(events)
    /\ pc' = "done"
    /\ UNCHANGED <<yy, events, current_month_num, tbl, ntables, nrows, lastRow, kept>>
    /\ UNCHANGED <<parseVars, tagVars, crsVars>>

(***************************************************************************)
(* parse_date_cell and parse_month_name_to_num on one input                *)
(***************************************************************************)
RECURSIVE upper(_)
upper(s) == IF Len(s) = 0 THEN "" ELSE upperCh(Head(s)) \o upper(Tail(s))

Abbrevs == {"Jan", "Feb", "Mar", "Apr", "May", "Jun", "Jul", "Aug", "Sep", "Oct", "Nov", "Dec"}

MonthTokens ==
    DOMAIN MONTHS
    \cup {lower(k) : k \in DOMAIN MONTHS}
    \cup {upper(k) : k \in DOMAIN MONTHS}
    \cup {a \o suf : a \in Abbrevs, suf \in {"x", "tober", "zipan"}}
    \cup {"Xyz", "Abc", "Fall", "Noon", "Spetember", "Setp", "Ma", "Ju", "Septembers",
          "Agosto", "Juin", "eJan", "Sunday"}

RangeDays == {"1", "28"}
SingleDays == {"0", "09", "29", "30", "31", "123"}
OddCells == {"", "TBD", "Sep 1, 2025", "Sep1", "Sep 1 -", "Dec 23 -- Jan 9", "Dec 23 to Jan 9",
             "  Sep \t 1 ", "Sep 25-Sep 26", "Sep 25- 26", "Sep 25 -26", "1 Sep", "Sep 1st"}

ParseInputs ==
    {[tok |-> t, cell |-> t \o " 5", cur |-> None] : t \in MonthTokens}
    \cup {[tok |-> a, cell |-> a \o " " \o d, cur |-> None] : a \in Abbrevs, d \in SingleDays}
    \cup {[tok |-> a, cell |-> a \o " " \o d1 \o " - " \o d2, cur |-> c] :
             a \in Abbrevs, d1 \in RangeDays \cup {"15"}, d2 \in RangeDays \cup {"15"}, c \in {None, 3}}
    \cup {[tok |-> a1, cell |-> a1 \o " " \o d1 \o " - " \o a2 \o " " \o d2, cur |-> None] :
             a1 \in Abbrevs, a2 \in Abbrevs, d1 \in RangeDays, d2 \in RangeDays}
    \cup {[tok |-> "", cell |-> d, cur |-> c] : d \in SingleDays \cup {"5"}, c \in 0..12}
    \cup {[tok |-> "", cell |-> o, cur |-> c] : o \in OddCells, c \in {None, 3}}

NoParse == [cellDone |-> FALSE, res |-> Raised, monDone |-> FALSE, mon |-> None]

ParseIdle == pd_in = [tok |-> "", cell |-> "", cur |-> None, yy |-> 25] /\ pd_out = NoParse

InitParse ==
    /\ \E i \in ParseInputs : \E y \in YYs :
          pd_in = [tok |-> i.tok, cell |-> i.cell, cur |-> i.cur, yy |-> y]
    /\ pd_out = NoParse

ParseDateCell ==
    /\ ~pd_out.cellDone
    /\ LET years == academic_year_to_years(pd_in.yy)
       IN  pd_out' = [pd_out EXCEPT !.cellDone = TRUE,
                         !.res = parse_date_cell(pd_in.cell, pd_in.cur,
                                                 years.fall_year, years.spring_year)]
    /\ UNCHANGED pd_in
    /\ UNCHANGED <<calVars, tagVars, crsVars>>

ParseMonthName ==
    /\ ~pd_out.monDone
    /\ pd_out' = [pd_out EXCEPT !.monDone = TRUE, !.mon = parse_month_name_to_num(pd_in.tok)]
    /\ UNCHANGED pd_in
    /\ UNCHANGED <<calVars, tagVars, crsVars>>

(***************************************************************************)
(* infer_tags on one title                                                 *)
(***************************************************************************)
MaxFrags == 3

Fragments == {"Spring Break", "-", "No Classes", " ", "Staff ", "Holiday", "Final Exams",
              "Follow a ", "Monday Class Schedule", "Reading", "/", "Study", " Day"}

RECURSIVE Joined(_)
Joined(n) == IF n = 0 THEN {""} ELSE {t \o f : t \in Joined(n - 1), f \in Fragments \cup {""}}

NoTags == [done |-> FALSE, tags |-> infer_tags("")]

TagsIdle == tg_in = "" /\ tg_out = NoTags

InitTags == tg_in \in Joined(MaxFrags) /\ tg_out = NoTags

InferTags ==
    /\ ~tg_out.done
    /\ tg_out' = [done |-> TRUE, tags |-> infer_tags(tg_in)]
    /\ UNCHANGED tg_in
    /\ UNCHANGED <<calVars, parseVars, crsVars>>

(***************************************************************************)
(* prepare_courses_for_ios.py                                              *)
(* A JSON object is a function from its field names; a field that may be   *)
(* null or a number is a tagged value.                                     *)
(***************************************************************************)
JStr(x) == [t |-> "str", s |-> x, n |-> 0]
JInt(x) == [t |-> "int", s |-> "", n |-> x]
JNull == [t |-> "null", s |-> "", n |-> 0]

\* dict.get(field, default)
get(obj, field, default) == IF field \in DOMAIN obj THEN obj[field] ELSE default

military_to_str_falsy(t) ==
    IF t.t = "null" \/ t.n <= 0 THEN ""
    ELSE zfill(decimal(t.n \div 100), 2) \o ":" \o zfill(decimal(t.n % 100), 2)

military_to_str(t) ==
    IF t.t = "null" \/ t.n < 0 THEN ""
    ELSE zfill(decimal(t.n \div 100), 2) \o ":" \o zfill(decimal(t.n % 100), 2)

course_key_joined(subj, crse) == subj \o crse
course_key(subj, crse) == subj \o "-" \o crse

\* the dict courses_by_key, kept as its items in insertion order
dict_keys(d) == {d[i].key : i \in 1..Len(d)}
dict_index(d, key) == CHOOSE i \in 1..Len(d) : d[i].key = key
dict_values(d) == [i \in 1..Len(d) |-> d[i].val]

\* d[key] = val
dict_set(d, key, val) ==
    IF key \in dict_keys(d)
    THEN [d EXCEPT ![dict_index(d, key)].val = val]
    ELSE Append(d, [key |-> key, val |-> val])

\* if key not in d: d[key] = val
dict_set_if_new(d, key, val) == IF key \in dict_keys(d) THEN d ELSE dict_set(d, key, val)

\* lines 45-53
catalog_record(item) ==
    LET subj == get(item, "subj", "")
        crse == get(item, "crse", "")
    IN  [subject |-> subj, number |-> crse,
         title |-> strip(get(item, "name", subj \o " " \o crse)),
         description |-> strip(get(item, "description", "")),
         sections |-> <<>>]

\* x or default, for a string that may be null
or_default(v, default) == IF v.t = "str" /\ v.s # "" THEN v.s ELSE default

\* lines 58-71
course_record(course) ==
    LET subj == get(course, "subj", "")
        crse == get(course, "crse", "")
    IN  [subject |-> subj, number |-> crse,
         title |-> strip(or_default(get(course, "name", JNull), subj \o " " \o crse)),
         description |-> "",
         sections |-> <<>>]

\* lines 76-91: the meeting of a timeslot, or none
meeting_kept(ts) ==
    /\ get(ts, "days", <<>>) # <<>>
    /\ military_to_str(get(ts, "timeStart", JInt(-1))) # ""
    /\ military_to_str(get(ts, "timeEnd", JInt(-1))) # ""

meeting(ts) ==
    [days |-> get(ts, "days", <<>>),
     start |-> military_to_str(get(ts, "timeStart", JInt(-1))),
     end |-> military_to_str(get(ts, "timeEnd", JInt(-1))),
     location |-> strip(get(ts, "location", ""))]

RECURSIVE meetings_of(_)
meetings_of(timeslots) ==
    IF Len(timeslots) = 0 THEN <<>>
    ELSE (IF meeting_kept(Head(timeslots)) THEN <<meeting(Head(timeslots))>> ELSE <<>>)
         \o meetings_of(Tail(timeslots))

\* lines 93-100
section_record(section) ==
    [crn |-> get(section, "crn", JNull),
     section |-> strip(get(section, "section", "")),
     instructor |-> strip(get(section, "instructor", "")),
     meetings |-> meetings_of(get(section, "timeslots", <<>>))]

RECURSIVE sections_of(_)
sections_of(sections) ==
    IF Len(sections) = 0 THEN <<>>
    ELSE <<section_record(Head(sections))>> \o sections_of(Tail(sections))

merge_course_overwrite(d, course) ==
    LET key == course_key(get(course, "subj", ""), get(course, "crse", ""))
        d1 == dict_set(d, key, course_record(course))
        i == dict_index(d1, key)
    IN  [d1 EXCEPT ![i].val.sections = @ \o sections_of(get(course, "sections", <<>>))]

\* lines 57-100: the body of the course loop
merge_course(d, course) ==
    LET key == course_key(get(course, "subj", ""), get(course, "crse", ""))
        d1 == dict_set_if_new(d, key, course_record(course))
        i == dict_index(d1, key)
    IN  [d1 EXCEPT ![i].val.sections = @ \o sections_of(get(course, "sections", <<>>))]

MaxCatalog == 2
MaxCourses == 2
MaxSchools == 2

CatalogPool ==
    { [key |-> "CSCI-2300",
       item |-> [subj |-> "CSCI", crse |-> "2300", name |-> "Intro to Algorithms ",
                 description |-> " Sorting and graphs. "]],
      [key |-> "CSCI-2300", item |-> [subj |-> "CSCI", crse |-> "2300"]],
      [key |-> "MATH-1010", item |-> [subj |-> "MATH", crse |-> "1010", name |-> ""]],
      [key |-> "MATH-1010", item |-> [subj |-> "MATH", crse |-> "1010", name |-> "  ",
                                      description |-> "Calculus"]],
      [key |-> "-1100", item |-> [crse |-> "1100", description |-> ""]],
      [key |-> "ALGO", item |-> [subj |-> "CSCI", crse |-> "2300", name |-> "Algorithms"]],
      [key |-> "PHYS-1100", item |-> [subj |-> "PHYS", crse |-> "1100", name |-> "Physics I"]] }

GoodSlot == [days |-> <<"M", "R">>, timeStart |-> JInt(930), timeEnd |-> JInt(1050),
             location |-> " DCC 308 "]
BadSlot == [days |-> <<"T">>, timeStart |-> JInt(-1), timeEnd |-> JInt(-1), location |-> "TBA"]

Sec(crn, slots) == [crn |-> JInt(crn), section |-> " 01 ", instructor |-> "Staff ",
                    timeslots |-> slots]

CoursePool ==
    { [subj |-> "CSCI", crse |-> "2300", name |-> JStr("Algo"),
       sections |-> <<Sec(101, <<GoodSlot>>), Sec(102, <<BadSlot, GoodSlot>>)>>],
      [subj |-> "CSCI", crse |-> "2300", name |-> JNull, sections |-> <<Sec(103, <<>>)>>],
      [subj |-> "MATH", crse |-> "1010", name |-> JStr(""), sections |-> <<Sec(201, <<BadSlot>>)>>],
      [subj |-> "PHYS", crse |-> "1100", name |-> JStr("   ")],
      [crse |-> "1100", sections |-> <<[timeslots |-> <<GoodSlot>>]>>],
      [subj |-> "ECSE", crse |-> "2610", name |-> JStr(" Computer Components "),
       sections |-> <<Sec(301, <<GoodSlot>>)>>] }

\* timeslots with every combination of a missing, null, negative, zero or positive time
DayOptions == {<<>> , ("days" :> <<>>), ("days" :> <<"M", "R">>)}
StartOptions == {<<>>} \cup {("timeStart" :> v) : v \in {JNull, JInt(-1), JInt(0), JInt(930)}}
EndOptions == {<<>>} \cup {("timeEnd" :> v) : v \in {JNull, JInt(-5), JInt(0), JInt(1050)}}
TimeSamples == {5, 59, 100, 959, 1000, 1430, 2359, 12345}

SlotPool ==
    {("location" :> "Lab") @@ d @@ a @@ b : d \in DayOptions, a \in StartOptions, b \in EndOptions}
    \cup {[days |-> <<"F">>, timeStart |-> JInt(t), timeEnd |-> JInt(t)] : t \in TimeSamples}

SlotLists ==
    {<<ts>> : ts \in SlotPool}
    \cup {<<ts, other>> : ts \in SlotPool, other \in {GoodSlot, BadSlot}}
    \cup {<<other, ts>> : ts \in SlotPool, other \in {GoodSlot, BadSlot}}

SectionCoursePool ==
    {[subj |-> "CSCI", crse |-> "2300", name |-> JStr("Algo"), sections |-> <<Sec(101, sl)>>] :
        sl \in SlotLists}

SectionCatalogPool == {CHOOSE e \in CatalogPool : e.key = "CSCI-2300" /\ "name" \in DOMAIN e.item}

CrsStart ==
    /\ courses_by_key = <<>>
    /\ ncat = 0
    /\ ncourses = 0
    /\ school = 0
    /\ output = <<>>
    /\ catalogSeen = <<>>
    /\ coursesSeen = <<>>

CrsIdle == cpc = "idle" /\ CrsStart

InitCourses == cpc = "catalog" /\ CrsStart

\* lines 44-53: one item of catalog.items(); the keys of a JSON object are distinct
CatalogItem(pool) ==
    /\ cpc = "catalog"
    /\ ncat < MaxCatalog
    /\ \E e \in pool :
          /\ \A i \in 1..Len(catalogSeen) : catalogSeen[i].key # e.key
          /\ courses_by_key' = dict_set(courses_by_key, e.key, catalog_record(e.item))
          /\ catalogSeen' = Append(catalogSeen, e)
    /\ ncat' = ncat + 1
    /\ UNCHANGED <<cpc, ncourses, school, output, coursesSeen>>
    /\ UNCHANGED <<calVars, parseVars, tagVars>>

\* line 56: the catalog is over, the loop over the schools begins
EndCatalog ==
    /\ cpc = "catalog"
    /\ cpc' = "schools"
    /\ UNCHANGED <<courses_by_key, ncat, ncourses, school, output, catalogSeen, coursesSeen>>
    /\ UNCHANGED <<calVars, parseVars, tagVars>>

\* line 56: the next school
NextSchool ==
    /\ cpc = "schools"
    /\ school < MaxSchools
    /\ school' = school + 1
    /\ UNCHANGED <<courses_by_key, cpc, ncat, ncourses, output, catalogSeen, coursesSeen>>
    /\ UNCHANGED <<calVars, parseVars, tagVars>>

\* lines 57-100: one course of the current school
SchoolCourse(pool) ==
    /\ cpc = "schools"
    /\ school >= 1
    /\ ncourses < MaxCourses
    /\ \E course \in pool :
          /\ courses_by_key' = merge_course(courses_by_key, course)
          /\ coursesSeen' = Append(coursesSeen, course)
    /\ ncourses' = ncourses + 1
    /\ UNCHANGED <<cpc, ncat, school, output, catalogSeen>>
    /\ UNCHANGED <<calVars, parseVars, tagVars>>

\* lines 102-105: the schools are over
Output ==
    /\ cpc = "schools"
    /\ output' = dict_values(courses_by_key)
    /\ cpc' = "done"
    /\ UNCHANGED <<courses_by_key, ncat, ncourses, school, catalogSeen, coursesSeen>>
    /\ UNCHANGED <<calVars, parseVars, tagVars>>

(***************************************************************************)
(* Specifications                                                          *)
(***************************************************************************)
\* scrape(yy) over tables and rows
InitScrapeAll == InitScrape /\ ParseIdle /\ TagsIdle /\ CrsIdle
NextScrape == LocateTables \/ Row \/ NextTable \/ Finish
SpecScrape == InitScrapeAll /\ [][NextScrape]_vars

\* parse_date_cell and parse_month_name_to_num over date cells and month tokens
InitParseAll == InitParse /\ CalIdle /\ TagsIdle /\ CrsIdle
NextParse == ParseDateCell \/ ParseMonthName
SpecParse == InitParseAll /\ [][NextParse]_vars

\* infer_tags over titles
InitTagsAll == InitTags /\ CalIdle /\ ParseIdle /\ CrsIdle
NextTags == InferTags
SpecTags == InitTagsAll /\ [][NextTags]_vars

\* the course merger over catalogs and schools
InitCoursesAll == InitCourses /\ CalIdle /\ ParseIdle /\ TagsIdle
NextCourses ==
    CatalogItem(CatalogPool) \/ EndCatalog \/ NextSchool \/ SchoolCourse(CoursePool) \/ Output
SpecCourses == InitCoursesAll /\ [][NextCourses]_vars

\* the course merger over sections and timeslots: the first course carries the timeslots
NextSections ==
    \/ CatalogItem(SectionCatalogPool)
    \/ EndCatalog
    \/ NextSchool
    \/ (ncourses = 0 /\ SchoolCourse(SectionCoursePool))
    \/ (ncourses > 0 /\ SchoolCourse(CoursePool))
    \/ Output
SpecSections == InitCoursesAll /\ [][NextSections]_vars

Init == InitScrapeAll
Next == NextScrape
Spec == SpecScrape

(***************************************************************************)
(* Properties of parse_date_cell and parse_month_name_to_num (SpecParse)   *)
(***************************************************************************)
DateLeq(a, b) ==
    \/ a.y < b.y
    \/ a.y = b.y /\ a.m < b.m
    \/ a.y = b.y /\ a.m = b.m /\ a.d <= b.d

\* C1: whenever parse_date_cell accepts a date cell (single date, same-month range,
\* cross-month range or bare day), the end date it returns is not earlier than the
\* start date, so every Event has endDate >= startDate.
C1_EndNotBeforeStart ==
    (pd_out.cellDone /\ pd_out.res.ok) => DateLeq(pd_out.res.start, pd_out.res.end)

LowerAbbrevs ==
    <<"jan", "feb", "mar", "apr", "may", "jun", "jul", "aug", "sep", "oct", "nov", "dec">>
LowerNames ==
    <<"january", "february", "march", "april", "may", "june", "july", "august",
      "september", "october", "november", "december">>

Alphabetic(s) == \A i \in 1..Len(s) : IsLetter(Ch(s, i))
IsMonthToken(s) == Len(s) \in 3..9 /\ Alphabetic(s)

\* the token is, ignoring case, the abbreviation or the full name of month n, or Sept
NamesMonth(tok, n) ==
    \/ lower(tok) = LowerAbbrevs[n]
    \/ lower(tok) = LowerNames[n]
    \/ n = 9 /\ lower(tok) = "sept"

\* the first three letters of the token are, ignoring case, the abbreviation of month n
StartsMonth(tok, n) == Len(tok) >= 3 /\ lower(SubSeq(tok, 1, 3)) = LowerAbbrevs[n]

\* the cell "<tok> 5" of the token was parsed as the 5th of month n
SingleCellOf(tok) == pd_in.cell = tok \o " 5"

\* C10 as stated: a month token of 3 to 9 letters resolves to month n exactly when
\* it is, ignoring case, the abbreviation of n, the full name of n, or Sept (n = 9);
\* every other token yields no month.
C10_OnlyNamesResolve ==
    (pd_out.monDone /\ IsMonthToken(pd_in.tok)) =>
        /\ \A n \in 1..12 : (pd_out.mon = n) <=> NamesMonth(pd_in.tok, n)
        /\ (pd_out.mon = None) <=> ~(\E n \in 1..12 : NamesMonth(pd_in.tok, n))

\* C10 amended: a month token of 3 to 9 letters resolves to month n exactly when its
\* first three letters are, ignoring case, the abbreviation of month n (which covers
\* the abbreviations, the full names and Sept); every other token yields no month,
\* and the row "<token> 5" carrying it is parsed as the 5th of that month exactly
\* when the token resolves and is dropped otherwise.
C10_PrefixResolves ==
    /\ (pd_out.monDone /\ IsMonthToken(pd_in.tok)) =>
          /\ \A n \in 1..12 : (pd_out.mon = n) <=> StartsMonth(pd_in.tok, n)
          /\ (pd_out.mon = None) <=> ~(\E n \in 1..12 : StartsMonth(pd_in.tok, n))
    /\ (pd_out.cellDone /\ IsMonthToken(pd_in.tok) /\ SingleCellOf(pd_in.tok)) =>
          /\ pd_out.res.ok <=> (\E n \in 1..12 : StartsMonth(pd_in.tok, n))
          /\ pd_out.res.ok =>
                /\ StartsMonth(pd_in.tok, pd_out.res.start.m)
                /\ pd_out.res.start.d = 5
                /\ pd_out.res.end = pd_out.res.start

\* a token that is no month name resolved through its first three letters, and its row was kept
C10_Witness ==
    /\ pd_out.monDone /\ pd_out.cellDone
    /\ pd_in.tok = "Septober" /\ SingleCellOf(pd_in.tok)
    /\ pd_out.mon = 9
    /\ pd_out.res.ok /\ pd_out.res.start.m = 9

(***************************************************************************)
(* Properties of infer_tags (SpecTags)                                     *)
(***************************************************************************)
Has(sub) == Contains(lower(tg_in), sub)

Triggers ==
    {"no classes", "holiday", "final exams", "reading/study", "reading day", "study day",
     "break-no classes"}

\* C7: each flag is set exactly when the lower-cased title holds its trigger
\* substrings; break implies noClasses; a title with no trigger has all flags false.
C7_TagsMatchTriggers ==
    tg_out.done =>
        /\ tg_out.tags.noClasses <=> Has("no classes")
        /\ tg_out.tags.holiday <=> Has("holiday")
        /\ tg_out.tags.followDay <=> (Has("follow a ") /\ Has(" class schedule"))
        /\ tg_out.tags.finals <=> Has("final exams")
        /\ tg_out.tags.readingDays <=>
              (Has("reading/study") \/ Has("reading day") \/ Has("study day"))
        /\ tg_out.tags.break <=>
              (Has("break-no classes") \/ (Has("break") /\ Has("no classes")))
        /\ tg_out.tags.break => tg_out.tags.noClasses
        /\ ( /\ \A sub \in Triggers : ~Has(sub)
             /\ ~(Has("follow a ") /\ Has(" class schedule"))
             /\ ~(Has("break") /\ Has("no classes")) )
           => tg_out.tags = [noClasses |-> FALSE, holiday |-> FALSE, followDay |-> FALSE,
                             finals |-> FALSE, readingDays |-> FALSE, break |-> FALSE]

\* "Spring Break-No Classes" was tagged break and noClasses and nothing else
C7_Witness ==
    /\ tg_out.done
    /\ tg_in = "Spring Break-No Classes"
    /\ tg_out.tags = [noClasses |-> TRUE, holiday |-> FALSE, followDay |-> FALSE,
                      finals |-> FALSE, readingDays |-> FALSE, break |-> TRUE]

(***************************************************************************)
(* Properties of scrape (SpecScrape)                                       *)
(***************************************************************************)
TitleHas(i, a, b) ==
    Contains(lower(events[i].title), a) /\ Contains(lower(events[i].title), b)

\* the startDate of the first event whose title holds both substrings, null without one
FirstMatch(a, b) ==
    IF \E i \in 1..Len(events) : TitleHas(i, a, b)
    THEN LET first == CHOOSE i \in 1..Len(events) :
                         TitleHas(i, a, b) /\ \A j \in 1..(i - 1) : ~TitleHas(j, a, b)
         IN  events[first].startDate
    ELSE null

\* C2: each of the four term boundaries of the output is the startDate of the first
\* event in document order whose lower-cased title satisfies the boundary's rule, and
\* is null whenever no single event satisfies it.
C2_BoundariesAreFirstMatches ==
    pc = "done" =>
        /\ terms.fall.classesBegin = FirstMatch("fall", "classes begin")
        /\ terms.fall.classesEnd = FirstMatch("last day of fall", "classes")
        /\ terms.spring.classesBegin = FirstMatch("spring", "classes begin")
        /\ terms.spring.classesEnd = FirstMatch("last day of spring", "classes")

\* the row loop run again over the kept rows alone
RECURSIVE Replay(_, _)
Replay(rows, st) ==
    IF Len(rows) = 0 THEN st
    ELSE Replay(Tail(rows), row_step([events |-> st.events, cur |-> st.cur], Head(rows).row, yy))

\* C6: a row whose date cell fails to parse produces no Event and leaves the events
\* and the carried month as they were, and the rows after it are processed as if it
\* were absent: the state always equals that of the loop run over the rows that
\* became events.
C6_FailureIsLocal ==
    /\ lastRow.outcome = "failed" =>
          /\ current_month_num = lastRow.curBefore
          /\ Len(events) = Len(kept)
    /\ Len(events) = Len(kept)
    /\ LET again == Replay(kept, [events |-> <<>>, cur |-> None, outcome |-> "none"])
       IN  again.events = events /\ again.cur = current_month_num

\* after a range into January and a failed row, the bare day 31 became January 31
C6_Witness ==
    /\ lastRow.failed >= 1
    /\ lastRow.outcome = "event"
    /\ nrows = 3
    /\ Len(events) = 2
    /\ events[1].endDate = "2026-01-09"
    /\ events[2].startDate = "2026-01-31"

AllDigits(s) == Len(s) > 0 /\ \A i \in 1..Len(s) : IsDigit(Ch(s, i))
IsoMonth(iso) == int(SubSeq(iso, 6, 7))
IsoDay(iso) == int(SubSeq(iso, 9, 10))

\* C9: the carried month is the month of the end date of the most recent row that
\* parsed (none before the first), whatever table that row was in; a digits-only
\* cell is resolved in that month and leaves it unchanged, and is dropped when no
\* row has parsed before it.
C9_CarriedMonth ==
    /\ current_month_num =
          (IF Len(events) = 0 THEN None ELSE IsoMonth(events[Len(events)].endDate))
    /\ AllDigits(normalize_ws(lastRow.row.date)) /\ lastRow.outcome # "skipped" =>
          /\ lastRow.curBefore = None => lastRow.outcome = "failed"
          /\ Len(events) = 0 => lastRow.outcome = "failed"
          /\ lastRow.outcome = "event" =>
                /\ Len(events) >= 2
                /\ lastRow.curBefore = IsoMonth(events[Len(events) - 1].endDate)
                /\ IsoMonth(events[Len(events)].startDate) = lastRow.curBefore
                /\ IsoDay(events[Len(events)].startDate) = int(normalize_ws(lastRow.row.date))
                /\ events[Len(events)].endDate = events[Len(events)].startDate
                /\ current_month_num = lastRow.curBefore

\* the bare day 31, first row of the second table, was resolved in the January that
\* the range "Dec 23 - Jan 9" of the first table ended in
C9_Witness ==
    /\ Len(kept) = 2
    /\ kept[1].table = 1 /\ kept[1].row.date = "Dec 23 - Jan 9"
    /\ kept[2].table = 2 /\ kept[2].row.date = "31"
    /\ events[2].startDate = "2026-01-31"
    /\ current_month_num = 1

(***************************************************************************)
(* Properties of the course merger (SpecCourses, SpecSections)             *)
(***************************************************************************)
\* the CourseKey of an output record, from its own fields
RecordKey(rec) == rec.subject \o "-" \o rec.number

\* the key the scheduling source gives a course
SourceKey(obj) == get(obj, "subj", "") \o "-" \o get(obj, "crse", "")

CatalogKeys == {catalogSeen[i].key : i \in 1..Len(catalogSeen)}
SchedulingKeys == {SourceKey(coursesSeen[i]) : i \in 1..Len(coursesSeen)}
CatalogEntry(k) == catalogSeen[CHOOSE i \in 1..Len(catalogSeen) : catalogSeen[i].key = k]

NoTwoShareKey ==
    \A i \in 1..Len(output) : \A j \in 1..Len(output) :
        i # j => RecordKey(output[i]) # RecordKey(output[j])

\* C3 as stated: whatever the catalog's dictionary keys are, no two Course records of
\* the output share the CourseKey built from their own subject and number.
C3_KeysUnique == cpc = "done" => NoTwoShareKey

\* every catalog key is the "{subj}-{crse}" of its own entry
CatalogKeysMatch == \A i \in 1..Len(catalogSeen) : catalogSeen[i].key = SourceKey(catalogSeen[i].item)

\* C3 amended: when every catalog dictionary key equals "{subj}-{crse}" of its own
\* entry, no two Course records of the output share a CourseKey, however many
\* schools or course entries repeat a subject/number pair.
C3_KeysUniqueWhenCatalogKeysMatch == (cpc = "done" /\ CatalogKeysMatch) => NoTwoShareKey

\* a catalog course met twice in the scheduling source, beside another catalog course
C3_Witness ==
    /\ cpc = "done" /\ CatalogKeysMatch
    /\ Len(catalogSeen) = 2 /\ Len(coursesSeen) = 2
    /\ SourceKey(coursesSeen[1]) = SourceKey(coursesSeen[2])
    /\ SourceKey(coursesSeen[1]) \in CatalogKeys
    /\ Len(output) = 2

RECURSIVE SourceSections(_, _)
SourceSections(courses, k) ==
    IF Len(courses) = 0 THEN <<>>
    ELSE (IF SourceKey(Head(courses)) = k THEN get(Head(courses), "sections", <<>>) ELSE <<>>)
         \o SourceSections(Tail(courses), k)

FirstSeen(k) == CHOOSE i \in 1..Len(coursesSeen) :
                    SourceKey(coursesSeen[i]) = k
                    /\ \A j \in 1..(i - 1) : SourceKey(coursesSeen[j]) # k

\* C4: the output holds exactly one Course per key of either source; a catalog-only
\* key has no sections, a scheduling-only key has an empty description, a key of both
\* keeps the catalog's title and description and gets one Section per source section;
\* catalog entries come first, in order, then the scheduling-only keys as first met.
C4_MergeIsUnion ==
    cpc = "done" =>
        /\ Len(output) = Len(courses_by_key)
        /\ dict_keys(courses_by_key) = CatalogKeys \cup SchedulingKeys
        /\ Cardinality(CatalogKeys \cup SchedulingKeys) = Len(output)
        /\ \A i \in 1..Len(output) :
              LET k == courses_by_key[i].key
                  rec == output[i]
                  src == SourceSections(coursesSeen, k)
              IN  /\ rec = courses_by_key[i].val
                  /\ k \notin SchedulingKeys => rec.sections = <<>>
                  /\ k \notin CatalogKeys => rec.description = ""
                  /\ k \in CatalogKeys =>
                        LET item == CatalogEntry(k).item
                        IN  /\ rec.subject = get(item, "subj", "")
                            /\ rec.number = get(item, "crse", "")
                            /\ "name" \in DOMAIN item => rec.title = strip(item.name)
                            /\ rec.title = catalog_record(item).title
                            /\ rec.description = strip(get(item, "description", ""))
                  /\ Len(rec.sections) = Len(src)
                  /\ \A j \in 1..Len(src) : rec.sections[j].crn = get(src[j], "crn", JNull)
        /\ \A i \in 1..Len(catalogSeen) : courses_by_key[i].key = catalogSeen[i].key
        /\ \A i \in 1..Len(output) : \A j \in 1..Len(output) :
              (Len(catalogSeen) < i /\ i < j) =>
                  FirstSeen(courses_by_key[i].key) < FirstSeen(courses_by_key[j].key)

\* one course of both sources, one of the catalog alone, one of the scheduling source alone
C4_Witness ==
    /\ cpc = "done"
    /\ Len(output) = 3
    /\ output[1].title = "Intro to Algorithms" /\ Len(output[1].sections) = 2
    /\ output[2].sections = <<>> /\ courses_by_key[2].key \notin SchedulingKeys
    /\ output[3].description = "" /\ courses_by_key[3].key \notin CatalogKeys
    /\ Len(output[3].sections) = 1

BlankName(obj) == "name" \notin DOMAIN obj \/ strip(obj.name) = ""
BlankSourceName(obj) ==
    "name" \notin DOMAIN obj \/ obj.name.t = "null" \/ strip(obj.name.s) = ""
Fallback(obj) == get(obj, "subj", "") \o " " \o get(obj, "crse", "")
RecordOf(k) == courses_by_key[dict_index(courses_by_key, k)].val

\* C5: a catalog entry whose name is absent, empty or only white space gets the title
\* "{subj} {crse}", and so does a scheduling-source course with a blank name that
\* creates a new record.
C5_BlankNameFallsBack ==
    /\ \A i \in 1..Len(catalogSeen) :
          BlankName(catalogSeen[i].item) =>
              RecordOf(catalogSeen[i].key).title = Fallback(catalogSeen[i].item)
    /\ \A i \in 1..Len(coursesSeen) :
          ( /\ BlankSourceName(coursesSeen[i])
            /\ SourceKey(coursesSeen[i]) \notin CatalogKeys
            /\ FirstSeen(SourceKey(coursesSeen[i])) = i )
          => RecordOf(SourceKey(coursesSeen[i])).title = Fallback(coursesSeen[i])

TimeGiven(ts, field) == field \in DOMAIN ts /\ ts[field].t = "int" /\ ts[field].n >= 0
SlotValid(ts) ==
    /\ "days" \in DOMAIN ts /\ ts.days # <<>>
    /\ TimeGiven(ts, "timeStart") /\ TimeGiven(ts, "timeEnd")

ClockTime(n) == n \in 0..2359 /\ n % 100 < 60
HHMM(n) ==
    Ch(Digits, (n \div 1000) + 1) \o Ch(Digits, ((n \div 100) % 10) + 1) \o ":"
    \o Ch(Digits, ((n \div 10) % 10) + 1) \o Ch(Digits, (n % 10) + 1)

MeetingMatches(m, ts) ==
    /\ m.days = ts.days
    /\ m.start # "" /\ m.end # ""
    /\ ClockTime(ts.timeStart.n) => m.start = HHMM(ts.timeStart.n)
    /\ ClockTime(ts.timeEnd.n) => m.end = HHMM(ts.timeEnd.n)
    /\ m.location = strip(get(ts, "location", ""))

\* C8: every section of the course just merged was appended to its Course, whatever
\* its timeslots, and its meetings are exactly its timeslots with a non-empty day
\* list and a given, non-null, non-negative timeStart and timeEnd, in order, each
\* clock time written HH:MM; the other timeslots are dropped.
C8_MeetingsAreValidSlots ==
    (cpc \in {"schools", "done"} /\ Len(coursesSeen) > 0) =>
        LET course == coursesSeen[Len(coursesSeen)]
            src == get(course, "sections", <<>>)
            got == RecordOf(SourceKey(course)).sections
            base == Len(got) - Len(src)
        IN  /\ Len(got) = Len(SourceSections(coursesSeen, SourceKey(course)))
            /\ \A j \in 1..Len(src) :
                  LET valid == SelectSeq(get(src[j], "timeslots", <<>>), SlotValid)
                      sec == got[base + j]
                  IN  /\ sec.crn = get(src[j], "crn", JNull)
                      /\ Len(sec.meetings) = Len(valid)
                      /\ \A k \in 1..Len(valid) : MeetingMatches(sec.meetings[k], valid[k])

\* a section whose first timeslot runs from 0 to 0 and whose second has negative
\* times: one meeting, 00:00 to 00:00
C8_Witness ==
    /\ cpc = "schools" /\ Len(coursesSeen) = 1
    /\ Len(coursesSeen[1].sections[1].timeslots) = 2
    /\ coursesSeen[1].sections[1].timeslots[2] = BadSlot
    /\ Len(courses_by_key) = 1
    /\ courses_by_key[1].val.sections[1].meetings =
          <<[days |-> <<"M", "R">>, start |-> "00:00", end |-> "00:00", location |-> "Lab"]>>

====
